---- MODULE Spec2Model ----
(***************************************************************************)
(* repo-file-sync-action: the per-repository sync session of run()        *)
(* (src/src/helpers.js, second half: index.js) and the Git class          *)
(* (src/src/git.js).                                                       *)
(*                                                                         *)
(* Text is modelled as a sequence of tokens (strings); a commit sha is a   *)
(* natural number: 1..MaxHist are the commits of the source history,       *)
(* oldest first, 0 is a sha that the source checkout cannot resolve (the   *)
(* all-zero sha of a branch creation, or a commit that was rewritten       *)
(* away).                                                                  *)
(***************************************************************************)
EXTENDS Integers, Sequences, FiniteSets, TLC

\* ------------------------------------------------------------------ bounds
\* Number of commits in the source history (the source HEAD at run start).
MaxHist == 3
\* Number of destination repositories returned by parseConfig().
NumRepos == 2
\* Largest number of commits an open PR found on the host already has.
MaxPrCommits == 1

\* ------------------------------------------------------------ value spaces
\* JavaScript `undefined` in a place where a sha / ref string is expected.
Undefined == -1
\* The empty string in a place where a ref string is expected.
EmptyRef == -2
\* The text "undefined", which `${ undefined }` renders in a template literal.
UndefinedText == -3

Shas == 1..MaxHist
Repos == 1..NumRepos

GH == "https://github.com/"
NL == "\n"
IssueRefs == {"#42", "#7", "#8"}

\* The digits of an issue reference: group 2 of the regular expression.
IssueNumber(t) ==
    CASE t = "#42" -> "42"
      [] t = "#7" -> "7"
      [] t = "#8" -> "8"
      [] OTHER -> ""

\* github.context.payload.repository.html_url of the source repository.
HtmlUrl == <<GH, "o/r">>

\* The messages of the source history, by position (cyclic beyond four):
\* an empty message, "fix (#42)", "docs (#7) #8\nmore", "feat".
MessageCatalog ==
    << <<>>,
       <<"fix ", "(", "#42", ")">>,
       <<"docs ", "(", "#7", ")", " ", "#8", NL, "more">>,
       <<"feat">> >>

SrcMessage(sha) == MessageCatalog[((sha - 1) % Len(MessageCatalog)) + 1]

\* The message of every commit an existing PR branch already carries.
OldMessage == <<"old ", "(", GH, "o/r", "/pull/", "1", ")">>

\* --------------------------------------------------------- pure functions
RECURSIVE Flatten(_)
Flatten(ss) == IF ss = <<>> THEN <<>> ELSE Head(ss) \o Flatten(Tail(ss))

\* A mutant of RewriteToken: an issue reference is left as it is.
RewriteTokenKeeps(t) == <<t>>

\* String.prototype.replace(new RegExp('\(#([0-9]+)\)', 'g'), `${html_url}/pull/$2`):
\* in the string literal '\(' is '(', so the pattern is the group (#([0-9]+)) and
\* matches every #N, with or without parentheses around it; the parentheses of
\* the text are not part of the match and stay.
RewriteToken(t) ==
    IF t \in IssueRefs THEN HtmlUrl \o <<"/pull/", IssueNumber(t)>> ELSE <<t>>

RewriteIssueRefs(msg) == Flatten([i \in 1..Len(msg) |-> RewriteToken(msg[i])])

\* String.prototype.replace('https://github.com/', ''): a string pattern
\* replaces the first occurrence only.
RECURSIVE StripFirstGithubPrefix(_)
StripFirstGithubPrefix(msg) ==
    IF msg = <<>> THEN <<>>
    ELSE IF Head(msg) = GH THEN Tail(msg)
    ELSE <<Head(msg)>> \o StripFirstGithubPrefix(Tail(msg))

\* message.split('\n')[0]
RECURSIVE FirstLine(_)
FirstLine(msg) ==
    IF msg = <<>> \/ Head(msg) = NL THEN <<>>
    ELSE <<Head(msg)>> \o FirstLine(Tail(msg))

\* Array.prototype.join('; ')
RECURSIVE JoinSemicolon(_)
JoinSemicolon(lines) ==
    IF lines = <<>> THEN <<>>
    ELSE IF Len(lines) = 1 THEN Head(lines)
    ELSE Head(lines) \o <<"; ">> \o JoinSemicolon(Tail(lines))

\* `${ ref }` inside a template literal.
FormatRef(ref) == IF ref = Undefined THEN UndefinedText ELSE ref


\* A mutant of RangeResolves: a ref git cannot resolve is taken for an empty range
\* instead of ending git with an error.
RangeResolvesAnything(ref) == TRUE

\* --------------------------------------------------- source checkout (git)
\* Whether `git log <ref>..HEAD` can resolve <ref> in the source checkout: a
\* commit of the history resolves, the empty string makes the range `..HEAD`
\* (HEAD..HEAD), anything else (the text "undefined", an unknown or all-zero
\* sha) ends git with a fatal error.
RangeResolves(ref) == ref \in Shas \/ ref = EmptyRef

\* `git log --reverse --format='%H' <ref>..HEAD`: the commits reachable from
\* HEAD and not from <ref>, oldest first.
GitLogRange(ref, head) ==
    IF ref = EmptyRef THEN <<>>
    ELSE [i \in 1..(IF head > ref THEN head - ref ELSE 0) |-> ref + i]

\* commitHashes.split('\n'): the empty output splits into one empty string.
SplitLines(hashes) == IF hashes = <<>> THEN <<EmptyRef>> ELSE hashes

\* Git.getCommitShaAndMessage(ref, SRC_REPO): `git log -n 1 --format='%H %B' <ref>`;
\* with an empty <ref> git log starts at HEAD.
getCommitShaAndMessage(ref, head) ==
    LET at == IF ref = EmptyRef THEN head ELSE ref
    IN  [sha |-> at, message |-> SrcMessage(at)]

\* .filter((commit) => commit.sha !== '' && commit.message !== '')
KeepsCommit(commit) == commit.sha # EmptyRef /\ commit.message # <<>>

RECURSIVE FilterCommits(_)
FilterCommits(cs) ==
    IF cs = <<>> THEN <<>>
    ELSE IF KeepsCommit(Head(cs)) THEN <<Head(cs)>> \o FilterCommits(Tail(cs))
    ELSE FilterCommits(Tail(cs))

\* The forced-push walk of run(): log, split, look up, filter.
WalkCommits(ref, head) ==
    FilterCommits([i \in 1..Len(SplitLines(GitLogRange(ref, head))) |->
        getCommitShaAndMessage(SplitLines(GitLogRange(ref, head))[i], head)])

\* ---------------------------------------------------------- pull requests
\* PR_BEING_UPDATED_WARNING as the constant holds it, and the text it becomes
\* once dedent() has stripped the common indentation of the lines around it.
BannerRaw == "PR_BEING_UPDATED_WARNING"
BannerDedented == "PR_BEING_UPDATED_WARNING (dedented)"

\* A PR body: the banners in front of it, the commit messages it lists, the
\* ref of its `srcRepoBeforeRef::` comment (Undefined: no such comment) and
\* the verb of its footer.
MakeBody(banner, msgs, anchor, verb) ==
    [banner |-> banner, msgs |-> msgs, anchor |-> anchor, verb |-> verb]

EmptyBody == MakeBody(<<>>, <<>>, Undefined, "")

\* `undefined` where a PR object is expected.
UndefinedPr == [number |-> 0, title |-> <<>>, body |-> EmptyBody, commits |-> <<>>]

IsDefined(pr) == pr.number # 0

\* The bodies an open PR can be found with: written by createOrUpdatePr for some
\* push (anchor a sha or the unresolvable 0) or by hand (no comment, an empty
\* ref), with or without the banner an aborted session left behind.
FoundBodies ==
    { MakeBody(b, << OldMessage >>, a, "created") :
        b \in { <<>>, <<BannerDedented>> },
        a \in {Undefined, EmptyRef} \cup (0..MaxHist) }

FoundPrNumber(repo) == repo
CreatedPrNumber(repo) == NumRepos + repo

\* RepoRef fields of the r-th configured repository and the names derived from it.
RepoUser(repo) == <<"user", repo>>
PrBranchName(repo) == <<"repo-sync/r/default", repo>>
BaseBranchName(repo) == <<"main", repo>>

\* The repository keys of the configuration file, in order: every repository
\* once, and the first one a second time with its default branch spelled out.
ConfigKeys ==
    [i \in 1..(NumRepos + 1) |->
        IF i = 1 THEN [id |-> 1, branch |-> ""]
        ELSE IF i = 2 THEN [id |-> 1, branch |-> "default"]
        ELSE [id |-> i - 1, branch |-> ""]]

\* parseRepoName(fullRepo): a key without `@branch` names the branch 'default'.
parseRepoName(key) ==
    [id |-> key.id,
     branch |-> IF key.branch = "" THEN "default" ELSE key.branch,
     uniqueName |-> <<"github.com", RepoUser(key.id), key.id,
                      IF key.branch = "" THEN "default" ELSE key.branch>>]

\* A mutant of parseConfig: a key whose uniqueName is already there is not merged.
parseConfigKeepsDuplicates(keys) == [i \in 1..Len(keys) |-> parseRepoName(keys[i])]

\* parseConfig(): Object.values of the object keyed by uniqueName, so a second
\* key of the same uniqueName adds its files to the first and no entry.
RECURSIVE parseConfig(_)
parseConfig(keys) ==
    IF keys = <<>> THEN <<>>
    ELSE IF \E i \in 1..(Len(keys) - 1) :
                parseRepoName(keys[i]).uniqueName = parseRepoName(keys[Len(keys)]).uniqueName
    THEN parseConfig(SubSeq(keys, 1, Len(keys) - 1))
    ELSE Append(parseConfig(SubSeq(keys, 1, Len(keys) - 1)), parseRepoName(keys[Len(keys)]))

\* const repos = await parseConfig()
repos == parseConfig(ConfigKeys)

TMP_DIR == "tmp-0"

\* path.join(TMP_DIR, repo.uniqueName)
workingDir(repo) == <<TMP_DIR>> \o repo.uniqueName

\* What the host holds for one destination repository: the open PR of the sync
\* branch (or none) and the messages of the commits the sync branch has on
\* top of its base.
HostStates(repo) ==
    { [pr |-> UndefinedPr, branch |-> <<>>] } \cup
    { [pr |-> [number |-> FoundPrNumber(repo), title |-> OldMessage, body |-> b,
               commits |-> <<>>],
       branch |-> [i \in 1..n |-> OldMessage]] :
        b \in FoundBodies, n \in 1..MaxPrCommits }

\* dedent(`${ PR_BEING_UPDATED_WARNING }\n\n${ body }`): the banner's lines lose
\* their common indentation, so the text stored is not the constant's text.
Dedent(banner) ==
    [i \in 1..Len(banner) |->
        IF banner[i] = BannerRaw THEN BannerDedented ELSE banner[i]]

\* body.replace(PR_BEING_UPDATED_WARNING, ''): the first occurrence of the
\* constant's exact text.
RECURSIVE RemoveFirstRaw(_)
RemoveFirstRaw(banner) ==
    IF banner = <<>> THEN <<>>
    ELSE IF Head(banner) = BannerRaw THEN Tail(banner)
    ELSE <<Head(banner)>> \o RemoveFirstRaw(Tail(banner))

\* ------------------------------------------------------------------ inputs
\* payload.commits of a push: the commits after position `from`, oldest first.
PayloadCommits(from) ==
    [i \in 1..(MaxHist - from) |-> [id |-> from + i, message |-> SrcMessage(from + i)]]

\* github.context.payload of a push event: `before` is the previous tip (0 when
\* the branch was created or its old tip is no longer in the history).
PushPayloads ==
    { [event |-> "push", forced |-> x[1], before |-> x[2], hasCommits |-> TRUE,
       commits |-> PayloadCommits(x[3])] :
        x \in { y \in BOOLEAN \X (0..MaxHist) \X (0..MaxHist) :
                    y[2] = 0 \/ y[3] = y[2] } }

\* github.context.payload of a workflow_dispatch event: no forced, before, commits.
DispatchPayload ==
    [event |-> "workflow_dispatch", forced |-> FALSE, before |-> Undefined,
     hasCommits |-> FALSE, commits |-> <<>>]

Payloads == PushPayloads \cup {DispatchPayload}

MetadataKinds == <<"labels", "assignees", "reviewers", "team_reviewers", "auto_merge">>

\* The inputs of config.js that run() reads: FORK, the four lists (TRUE: a
\* non-empty list is configured) and the auto-merge method ("": undefined).
MakeConfig(fork, labels, others, method) ==
    [FORK |-> fork, PR_LABELS |-> labels, ASSIGNEES |-> others, REVIEWERS |-> others,
     TEAM_REVIEWERS |-> others, AUTO_MERGE_MERGE_METHOD |-> method]

Configs ==
    { MakeConfig(FALSE, TRUE, FALSE, ""),
      MakeConfig(TRUE, TRUE, TRUE, "squash"),
      MakeConfig(FALSE, TRUE, FALSE, "fast") }

\* mergeMethod.toUpperCase()
toUpperCase(method) ==
    CASE method = "squash" -> "SQUASH"
      [] method = "fast" -> "FAST"
      [] OTHER -> method

\* The values of the host's PullRequestMergeMethod enumeration.
MergeMethods == {"MERGE", "REBASE", "SQUASH"}


\* ------------------------------------------------------------------- state
VARIABLES
    payload,        \* github.context.payload
    config,         \* the values exported by config.js
    index,          \* forEach(repos, ...): position in repos
    pc,             \* position of run() inside the callback of the current repository
    outcome,        \* how the callback ended: "failed" (catch), "noop" (early return), "completed"
    git,            \* the Git object: repo, existingPr, prBranch, baseBranch
    existingPr,     \* const existingPr of the callback
    fetchDepth,     \* depth given to deepenCheckout (0: not called)
    iterator,       \* let iterator
    pos,            \* forEach(iterator, ...): position in iterator
    modified,       \* const modified: the commit messages of the destination commits made
    commitMessages, \* const commitMessages
    pullRequest,    \* const pullRequest: the number of the PR createOrUpdatePr returned
    metaPos,        \* which of the five metadata blocks is next
    srcHEAD,        \* HEAD of the source checkout ('./')
    dstCommits,     \* destination checkout: messages of the commits of the PR branch on top of its base
    host,           \* the host's state of the current repository: open PR, sync branch
    calls,          \* the write calls the session sent to the host, in order
    warnings,       \* metadata kinds whose failure became a core.warning
    prUrls,         \* const prUrls
    failed,         \* core.setFailed was called
    sessions,       \* per finished callback: repository, outcome, whether it committed
    output,         \* the pull_request_urls output
    \* -- the file rules of one replay (syncAndAddFile, copy)
    fpc,            \* position of the replay loops: "idle", "apply", "failed" (catch), "done"
    fCommit,        \* forEach(iterator, ...): position in iterator
    fRule,          \* forEach(item.files, ...): position in item.files
    attempts,       \* number of calls of syncAndAddFile so far
    app,            \* the last call of syncAndAddFile: rule, checkouts before and after, result
    \* -- the verified-commit strategy (createGithubVerifiedCommits)
    bpc,            \* position of createGithubVerifiedCommits: "idle", "blobs", "await", "ref",
                    \* "commits", "update", "failed" (it threw), "done"
    trees,          \* destination checkout: the tree of the base and of every pending commit
    bCommit,        \* for (const commitSha of commitsToPush): position
    bEntry,         \* for (const treeEntry of tree): position
    uploads,        \* the createBlob requests sent to the host, in order
    lastCommitSha,  \* this.lastCommitSha
    remoteCommits,  \* the commits createCommit made on the host, in order
    branchRef,      \* the host's refs/heads/<prBranch>: a commit sha, or <<>> when there is none
    pendingParent,  \* destination checkout: how the PR branch was set up, and the commit
                    \* below the first pending commit
    requests        \* the createRef, createTree, createCommit, updateRef requests, in order

fileVars == <<fpc, fCommit, fRule, attempts, app>>
remoteVars == <<lastCommitSha, remoteCommits, branchRef, pendingParent, requests>>
blobVars == <<bpc, trees, bCommit, bEntry, uploads, remoteVars>>
inputVars == <<payload, config>>
localVars == <<existingPr, fetchDepth, iterator, pos, modified, commitMessages,
               pullRequest, metaPos>>
runVars == <<index, prUrls, sessions, output>>
sessionVars == <<payload, config, index, pc, outcome, git, existingPr, fetchDepth, iterator,
                 pos, modified, commitMessages, pullRequest, metaPos, srcHEAD, dstCommits,
                 host, calls, warnings, prUrls, failed, sessions, output>>
vars == <<sessionVars, fileVars, blobVars>>

NoHost == [pr |-> UndefinedPr, branch |-> <<>>]
NoOutput == [set |-> FALSE, urls |-> <<>>]

MakeCall(op, pr, head, base) == [op |-> op, pr |-> pr, head |-> head, base |-> base]

\* The file rules of a replay and the verified-commit strategy are followed on
\* their own (SpecCopy, SpecVerifiedCommits); elsewhere their variables rest.
NoApp == [result |-> ""]

FilesIdle ==
    /\ fpc = "idle" /\ fCommit = 1 /\ fRule = 1 /\ attempts = 0
    /\ app = NoApp

BlobsIdle ==
    /\ bpc = "idle" /\ trees = <<>> /\ bCommit = 1 /\ bEntry = 1 /\ uploads = <<>>
    /\ lastCommitSha = <<>> /\ remoteCommits = <<>> /\ branchRef = <<>> /\ requests = <<>>
    /\ pendingParent = <<>>

Init ==
    /\ FilesIdle
    /\ BlobsIdle
    /\ payload \in Payloads
    /\ config \in Configs
    /\ index = 1
    /\ pc = "start"
    /\ outcome = ""
    /\ git = [repo |-> 0, workingDir |-> <<>>, existingPr |-> UndefinedPr, prBranch |-> <<>>,
              baseBranch |-> <<>>]
    /\ existingPr = UndefinedPr
    /\ fetchDepth = 0
    /\ iterator = <<>>
    /\ pos = 1
    /\ modified = <<>>
    /\ commitMessages = <<>>
    /\ pullRequest = 0
    /\ metaPos = 1
    /\ srcHEAD = MaxHist
    /\ dstCommits = <<>>
    /\ host = NoHost
    /\ calls = <<>>
    /\ warnings = {}
    /\ prUrls = <<>>
    /\ failed = FALSE
    /\ sessions = <<>>
    /\ output = NoOutput

\* A mutant of Catch: the exception leaves the callback and the loop, and run()
\* is rejected.
CatchRejectsRun ==
    /\ failed' = TRUE
    /\ outcome' = "failed"
    /\ pc' = "rejected"

\* A mutant of Catch: the exception is caught outside the loop over the
\* repositories, so the first failure ends the run.
CatchEndsRun ==
    /\ failed' = TRUE
    /\ outcome' = "failed"
    /\ pc' = "output"

\* catch (err) { core.setFailed(err.message) }: the callback ends.
Catch ==
    /\ failed' = TRUE
    /\ outcome' = "failed"
    /\ pc' = "end"

\* The start of run(): new Git() and parseConfig(); when either throws, run() is
\* rejected and its .catch calls core.setFailed.
run ==
    /\ pc = "start"
    /\ \E parsed \in BOOLEAN :
        IF parsed
        THEN pc' = "init" /\ UNCHANGED failed
        ELSE pc' = "rejected" /\ failed' = TRUE
    /\ UNCHANGED <<fileVars, blobVars, inputVars, localVars, runVars, outcome, git, srcHEAD,
                   dstCommits, host, calls, warnings>>

\* git.initRepo(item.repo): resets the fields of the previous repository, then
\* clones; a failing clone throws.
initRepo ==
    /\ pc = "init"
    /\ \E cloned \in BOOLEAN :
        /\ git' = [repo |-> repos[index].id, workingDir |-> workingDir(repos[index]),
                   existingPr |-> UndefinedPr, prBranch |-> <<>>,
                   baseBranch |-> IF cloned THEN BaseBranchName(index) ELSE <<>>]
        /\ IF cloned
           THEN pc' = "reserve" /\ UNCHANGED <<failed, outcome>>
           ELSE Catch
    /\ UNCHANGED <<fileVars, blobVars, inputVars, localVars, runVars, srcHEAD, dstCommits, host, calls, warnings>>

\* git.reservePrBranchName()
reservePrBranchName ==
    /\ pc = "reserve"
    /\ git' = [git EXCEPT !.prBranch = PrBranchName(git.repo)]
    /\ pc' = "find"
    /\ UNCHANGED <<fileVars, blobVars, inputVars, localVars, runVars, outcome, srcHEAD, dstCommits, host,
                   calls, warnings, failed>>

\* git.findExistingPr(): data[0] of the open PRs of the sync branch, with its
\* commits fetched; the same object is this.existingPr and the callback's existingPr.
findExistingPr ==
    /\ pc = "find"
    /\ \E h \in HostStates(git.repo) :
        /\ host' = h
        /\ git' = [git EXCEPT !.existingPr = [h.pr EXCEPT !.commits = h.branch]]
        /\ existingPr' = [h.pr EXCEPT !.commits = h.branch]
    /\ pc' = "branch"
    /\ UNCHANGED <<fileVars, blobVars, inputVars, runVars, outcome, fetchDepth, iterator, pos, modified,
                   commitMessages, pullRequest, metaPos, srcHEAD, dstCommits, calls,
                   warnings, failed>>

\* git.createPrBranch(existingPr): the fetched PR branch is checked out, or a
\* new branch is made at the base.
createPrBranch ==
    /\ pc = "branch"
    /\ dstCommits' = IF IsDefined(existingPr) THEN existingPr.commits ELSE <<>>
    /\ pc' = "warn"
    /\ UNCHANGED <<fileVars, blobVars, inputVars, localVars, runVars, outcome, git, srcHEAD, host, calls,
                   warnings, failed>>

\* git.setPrWarning()
setPrWarning ==
    /\ pc = "warn"
    /\ IF IsDefined(git.existingPr)
       THEN /\ host' = [host EXCEPT !.pr.body =
                    [git.existingPr.body EXCEPT !.banner = Dedent(<<BannerRaw>> \o @)]]
            /\ calls' = Append(calls, MakeCall("update_body", git.existingPr.number, <<>>, <<>>))
       ELSE UNCHANGED <<host, calls>>
    /\ pc' = "deepen"
    /\ UNCHANGED <<fileVars, blobVars, inputVars, localVars, runVars, outcome, git, srcHEAD, dstCommits,
                   warnings, failed>>

\* if (payload?.forced || payload?.commits?.length > 1): both checkouts are
\* deepened by the PR's commit count plus the payload's.
deepenCheckouts ==
    /\ pc = "deepen"
    /\ fetchDepth' = IF payload.forced \/ (payload.hasCommits /\ Len(payload.commits) > 1)
                     THEN Len(existingPr.commits) + Len(payload.commits)
                     ELSE 0
    /\ pc' = "resolve"
    /\ UNCHANGED <<fileVars, blobVars, inputVars, runVars, outcome, git, existingPr, iterator, pos, modified,
                   commitMessages, pullRequest, metaPos, srcHEAD, dstCommits, host, calls,
                   warnings, failed>>

\* A mutant of getSrcRepoBeforeRef: the live payload is read even when a PR exists.
getSrcRepoBeforeRefFromPayload == payload.before

\* Git.getSrcRepoBeforeRef(): the ref of the body's comment (undefined when the
\* body has none), or payload.before when there is no PR.
getSrcRepoBeforeRef ==
    IF IsDefined(git.existingPr) THEN git.existingPr.body.anchor ELSE payload.before

\* A mutant of resolveForcedWalk: the destination checkout is not reset to the
\* base sha of the PR.
resolveForcedWalkNoReset ==
    /\ pc = "resolve"
    /\ payload.forced /\ IsDefined(existingPr)
    /\ IF RangeResolves(FormatRef(getSrcRepoBeforeRef))
       THEN /\ iterator' = WalkCommits(getSrcRepoBeforeRef, srcHEAD)
            /\ pc' = "replay"
            /\ UNCHANGED <<failed, outcome, dstCommits>>
       ELSE /\ Catch
            /\ UNCHANGED <<iterator, dstCommits>>
    /\ UNCHANGED <<fileVars, blobVars, inputVars, runVars, git, existingPr, fetchDepth, pos, modified,
                   commitMessages, pullRequest, metaPos, srcHEAD, host, calls, warnings>>

\* if (payload?.forced && existingPr): walk <anchor>..HEAD of the source, then
\* reset the destination to the PR's base sha. `git log` throws on a ref it
\* cannot resolve, before the reset.
resolveForcedWalk ==
    /\ pc = "resolve"
    /\ payload.forced /\ IsDefined(existingPr)
    /\ IF RangeResolves(FormatRef(getSrcRepoBeforeRef))
       THEN /\ iterator' = WalkCommits(getSrcRepoBeforeRef, srcHEAD)
            /\ dstCommits' = <<>>
            /\ pc' = "replay"
            /\ UNCHANGED <<failed, outcome>>
       ELSE /\ Catch
            /\ UNCHANGED <<iterator, dstCommits>>
    /\ UNCHANGED <<fileVars, blobVars, inputVars, runVars, git, existingPr, fetchDepth, pos, modified,
                   commitMessages, pullRequest, metaPos, srcHEAD, host, calls, warnings>>

\* A mutant of resolveFromPayload: the payload's commits are taken newest first.
resolveFromPayloadNewestFirst ==
    /\ pc = "resolve"
    /\ ~(payload.forced /\ IsDefined(existingPr))
    /\ payload.hasCommits
    /\ iterator' = [i \in 1..Len(payload.commits) |->
                        [sha |-> payload.commits[Len(payload.commits) + 1 - i].id,
                         message |-> payload.commits[Len(payload.commits) + 1 - i].message]]
    /\ pc' = "replay"
    /\ UNCHANGED <<fileVars, blobVars, inputVars, runVars, outcome, git, existingPr, fetchDepth, pos, modified,
                   commitMessages, pullRequest, metaPos, srcHEAD, dstCommits, host, calls,
                   warnings, failed>>

\* else if (payload.commits): the payload's commits, sha and message.
resolveFromPayload ==
    /\ pc = "resolve"
    /\ ~(payload.forced /\ IsDefined(existingPr))
    /\ payload.hasCommits
    /\ iterator' = [i \in 1..Len(payload.commits) |->
                        [sha |-> payload.commits[i].id, message |-> payload.commits[i].message]]
    /\ pc' = "replay"
    /\ UNCHANGED <<fileVars, blobVars, inputVars, runVars, outcome, git, existingPr, fetchDepth, pos, modified,
                   commitMessages, pullRequest, metaPos, srcHEAD, dstCommits, host, calls,
                   warnings, failed>>

\* A mutant of resolveHeadFallback: without a commit list nothing is replayed.
resolveHeadFallbackEmpty ==
    /\ pc = "resolve"
    /\ ~(payload.forced /\ IsDefined(existingPr))
    /\ ~payload.hasCommits
    /\ iterator' = <<>>
    /\ pc' = "replay"
    /\ UNCHANGED <<fileVars, blobVars, inputVars, runVars, outcome, git, existingPr, fetchDepth, pos, modified,
                   commitMessages, pullRequest, metaPos, srcHEAD, dstCommits, host, calls,
                   warnings, failed>>

\* else: the current HEAD of the source checkout.
resolveHeadFallback ==
    /\ pc = "resolve"
    /\ ~(payload.forced /\ IsDefined(existingPr))
    /\ ~payload.hasCommits
    /\ iterator' = << getCommitShaAndMessage(srcHEAD, srcHEAD) >>
    /\ pc' = "replay"
    /\ UNCHANGED <<fileVars, blobVars, inputVars, runVars, outcome, git, existingPr, fetchDepth, pos, modified,
                   commitMessages, pullRequest, metaPos, srcHEAD, dstCommits, host, calls,
                   warnings, failed>>


\* Git.removePrWarning(): the body found at the start, with the first exact
\* occurrence of the constant removed, is written to the PR.
removePrWarning ==
    IF IsDefined(git.existingPr)
    THEN /\ host' = [host EXCEPT !.pr.body =
                 [git.existingPr.body EXCEPT !.banner = RemoveFirstRaw(@)]]
         /\ calls' = Append(calls, MakeCall("update_body", git.existingPr.number, <<>>, <<>>))
    ELSE UNCHANGED <<host, calls>>

\* The callback of forEach(iterator, ...): check the commit out in the source,
\* apply the file rules (a copy, render or `git add` that fails throws), then
\* either find the destination unchanged (the PR warning is removed) or commit
\* with the rewritten message. `git commit -m ''` aborts, which throws.
replayCommit ==
    /\ pc = "replay"
    /\ pos <= Len(iterator)
    /\ srcHEAD' = iterator[pos].sha
    /\ \E ruleThrows \in BOOLEAN, hasChanges \in BOOLEAN :
        IF ruleThrows
        THEN /\ Catch
             /\ UNCHANGED <<pos, dstCommits, modified, host, calls>>
        ELSE IF ~hasChanges
        THEN /\ removePrWarning
             /\ pos' = pos + 1
             /\ UNCHANGED <<pc, dstCommits, modified, failed, outcome>>
        ELSE IF RewriteIssueRefs(iterator[pos].message) = <<>>
        THEN /\ Catch
             /\ UNCHANGED <<pos, dstCommits, modified, host, calls>>
        ELSE /\ dstCommits' = Append(dstCommits, RewriteIssueRefs(iterator[pos].message))
             /\ modified' = Append(modified, RewriteIssueRefs(iterator[pos].message))
             /\ pos' = pos + 1
             /\ UNCHANGED <<pc, host, calls, failed, outcome>>
    /\ UNCHANGED <<fileVars, blobVars, inputVars, runVars, git, existingPr, fetchDepth, iterator,
                   commitMessages, pullRequest, metaPos, warnings>>

\* A mutant of checkModified: the early return on an empty `modified` is missing.
checkModifiedNeverReturns ==
    /\ pc = "replay"
    /\ pos > Len(iterator)
    /\ pc' = "push"
    /\ UNCHANGED <<fileVars, blobVars, inputVars, localVars, runVars, outcome, git, srcHEAD, dstCommits, host,
                   calls, warnings, failed>>

\* if (modified.length === 0) return
checkModified ==
    /\ pc = "replay"
    /\ pos > Len(iterator)
    /\ IF modified = <<>>
       THEN pc' = "end" /\ outcome' = "noop"
       ELSE pc' = "push" /\ UNCHANGED outcome
    /\ UNCHANGED <<fileVars, blobVars, inputVars, localVars, runVars, git, srcHEAD, dstCommits, host, calls,
                   warnings, failed>>

\* git.push(): the sync branch on the host (of the fork when FORK is set) is
\* forced to the local branch; a rejected push throws.
push ==
    /\ pc = "push"
    /\ \E accepted \in BOOLEAN :
        IF accepted
        THEN /\ host' = [host EXCEPT !.branch = dstCommits]
             /\ calls' = Append(calls, MakeCall("push", 0,
                            <<IF config.FORK THEN "fork" ELSE "origin">>, git.prBranch))
             /\ pc' = "messages"
             /\ UNCHANGED <<failed, outcome>>
        ELSE /\ Catch
             /\ UNCHANGED <<host, calls>>
    /\ UNCHANGED <<fileVars, blobVars, inputVars, localVars, runVars, git, srcHEAD, dstCommits, warnings>>

PayloadMessages == [i \in 1..Len(payload.commits) |-> payload.commits[i].message]

\* The three-way choice of the commit messages for the PR; the two branches that
\* read payload.commits throw a TypeError when the payload has none.
aggregateMessages ==
    /\ pc = "messages"
    /\ IF payload.forced
       THEN /\ commitMessages' = modified
            /\ pc' = "pr"
            /\ UNCHANGED <<failed, outcome>>
       ELSE IF ~payload.hasCommits
       THEN /\ Catch
            /\ UNCHANGED commitMessages
       ELSE /\ commitMessages' =
                  IF IsDefined(existingPr) THEN host.branch \o PayloadMessages
                  ELSE PayloadMessages
            /\ pc' = "pr"
            /\ UNCHANGED <<failed, outcome>>
    /\ UNCHANGED <<fileVars, blobVars, inputVars, runVars, git, existingPr, fetchDepth, iterator, pos, modified,
                   pullRequest, metaPos, srcHEAD, dstCommits, host, calls, warnings>>

\* A mutant of PrMessage: 'https://github.com/' is not removed.
PrMessageKeepsPrefix(msg) == RewriteIssueRefs(msg)

\* commitMessages.map(...): issue references rewritten, then the first
\* 'https://github.com/' of each message removed.
PrMessage(msg) == StripFirstGithubPrefix(RewriteIssueRefs(msg))

PrTitle(msgs) == JoinSemicolon([i \in 1..Len(msgs) |-> FirstLine(PrMessage(msgs[i]))])

PrBody(msgs) ==
    MakeBody(<<>>, [i \in 1..Len(msgs) |-> PrMessage(msgs[i])], FormatRef(getSrcRepoBeforeRef),
             IF IsDefined(git.existingPr) THEN "updated" ELSE "created")

\* A mutant of createOrUpdatePr: the created PR is not stored in this.existingPr.
createOrUpdatePrForgetsCreated ==
    /\ pc = "pr"
    /\ \E accepted \in BOOLEAN :
        IF ~accepted
        THEN /\ Catch
             /\ UNCHANGED <<host, calls, git, pullRequest>>
        ELSE IF IsDefined(git.existingPr)
        THEN /\ host' = [host EXCEPT !.pr.title = PrTitle(commitMessages),
                                     !.pr.body = PrBody(commitMessages)]
             /\ calls' = Append(calls, MakeCall("update", git.existingPr.number, <<>>, <<>>))
             /\ pullRequest' = git.existingPr.number
             /\ pc' = "meta"
             /\ UNCHANGED <<git, failed, outcome>>
        ELSE /\ host' = [host EXCEPT !.pr =
                    [number |-> CreatedPrNumber(git.repo), title |-> PrTitle(commitMessages),
                     body |-> PrBody(commitMessages), commits |-> <<>>]]
             /\ calls' = Append(calls, MakeCall("create", CreatedPrNumber(git.repo),
                    <<IF config.FORK THEN <<"fork">> ELSE RepoUser(git.repo), git.prBranch>>,
                    git.baseBranch))
             /\ pullRequest' = CreatedPrNumber(git.repo)
             /\ pc' = "meta"
             /\ UNCHANGED <<git, failed, outcome>>
    /\ UNCHANGED <<fileVars, blobVars, inputVars, runVars, existingPr, fetchDepth, iterator, pos, modified,
                   commitMessages, metaPos, srcHEAD, dstCommits, warnings>>

\* Git.createOrUpdatePr(commitMessages): pulls.update of the existing PR, or
\* pulls.create, whose result becomes this.existingPr. A rejected call throws.
createOrUpdatePr ==
    /\ pc = "pr"
    /\ \E accepted \in BOOLEAN :
        IF ~accepted
        THEN /\ Catch
             /\ UNCHANGED <<host, calls, git, pullRequest>>
        ELSE IF IsDefined(git.existingPr)
        THEN /\ host' = [host EXCEPT !.pr.title = PrTitle(commitMessages),
                                     !.pr.body = PrBody(commitMessages)]
             /\ calls' = Append(calls, MakeCall("update", git.existingPr.number, <<>>, <<>>))
             /\ pullRequest' = git.existingPr.number
             /\ pc' = "meta"
             /\ UNCHANGED <<git, failed, outcome>>
        ELSE /\ host' = [host EXCEPT !.pr =
                    [number |-> CreatedPrNumber(git.repo), title |-> PrTitle(commitMessages),
                     body |-> PrBody(commitMessages), commits |-> <<>>]]
             /\ calls' = Append(calls, MakeCall("create", CreatedPrNumber(git.repo),
                    <<IF config.FORK THEN <<"fork">> ELSE RepoUser(git.repo), git.prBranch>>,
                    git.baseBranch))
             /\ git' = [git EXCEPT !.existingPr =
                    [number |-> CreatedPrNumber(git.repo), title |-> PrTitle(commitMessages),
                     body |-> PrBody(commitMessages), commits |-> <<>>]]
             /\ pullRequest' = CreatedPrNumber(git.repo)
             /\ pc' = "meta"
             /\ UNCHANGED <<failed, outcome>>
    /\ UNCHANGED <<fileVars, blobVars, inputVars, runVars, existingPr, fetchDepth, iterator, pos, modified,
                   commitMessages, metaPos, srcHEAD, dstCommits, warnings>>

\* Whether the metadata block of this kind makes its call.
MetadataWanted(kind) ==
    CASE kind = "labels" -> config.PR_LABELS /\ ~config.FORK
      [] kind = "assignees" -> config.ASSIGNEES /\ ~config.FORK
      [] kind = "reviewers" -> config.REVIEWERS /\ ~config.FORK
      [] kind = "team_reviewers" -> config.TEAM_REVIEWERS /\ ~config.FORK
      [] kind = "auto_merge" -> config.AUTO_MERGE_MERGE_METHOD # ""

\* The argument of a metadata call that the claims read: the merge method of
\* the enablePullRequestAutoMerge mutation.
MetadataArgument(kind) ==
    IF kind = "auto_merge" THEN <<toUpperCase(config.AUTO_MERGE_MERGE_METHOD)>> ELSE <<>>

\* The outcomes the host can give a metadata call: a mutation whose merge
\* method is not of the enumeration is always rejected.
MetadataOutcomes(kind) ==
    IF kind = "auto_merge" /\ toUpperCase(config.AUTO_MERGE_MERGE_METHOD) \notin MergeMethods
    THEN {FALSE}
    ELSE BOOLEAN

\* A mutant of applyMetadata: a failing metadata call is not caught by its own
\* try block and ends the callback.
applyMetadataThrows ==
    /\ pc = "meta"
    /\ IF MetadataWanted(MetadataKinds[metaPos])
       THEN /\ calls' = Append(calls,
                    MakeCall(MetadataKinds[metaPos], git.existingPr.number,
                             MetadataArgument(MetadataKinds[metaPos]), <<>>))
            /\ \E ok \in MetadataOutcomes(MetadataKinds[metaPos]) :
                IF ok
                THEN /\ IF metaPos = Len(MetadataKinds)
                        THEN pc' = "notice" /\ UNCHANGED metaPos
                        ELSE metaPos' = metaPos + 1 /\ UNCHANGED pc
                     /\ UNCHANGED <<failed, outcome>>
                ELSE Catch /\ UNCHANGED metaPos
       ELSE /\ UNCHANGED <<calls, failed, outcome>>
            /\ IF metaPos = Len(MetadataKinds)
               THEN pc' = "notice" /\ UNCHANGED metaPos
               ELSE metaPos' = metaPos + 1 /\ UNCHANGED pc
    /\ UNCHANGED <<fileVars, blobVars, inputVars, runVars, git, existingPr, fetchDepth, iterator, pos,
                   modified, commitMessages, pullRequest, srcHEAD, dstCommits, host, warnings>>

\* One of the five metadata blocks: the call goes to this.existingPr; a failure
\* is caught and becomes a warning. enablePrAutoMerge logs an error for a method
\* it does not know and goes on to send the mutation with it.
applyMetadata ==
    /\ pc = "meta"
    /\ IF MetadataWanted(MetadataKinds[metaPos])
       THEN /\ calls' = Append(calls,
                    MakeCall(MetadataKinds[metaPos], git.existingPr.number,
                             MetadataArgument(MetadataKinds[metaPos]), <<>>))
            /\ \E ok \in MetadataOutcomes(MetadataKinds[metaPos]) :
                warnings' = IF ok THEN warnings ELSE warnings \cup {MetadataKinds[metaPos]}
       ELSE UNCHANGED <<calls, warnings>>
    /\ IF metaPos = Len(MetadataKinds)
       THEN pc' = "notice" /\ UNCHANGED metaPos
       ELSE metaPos' = metaPos + 1 /\ UNCHANGED pc
    /\ UNCHANGED <<fileVars, blobVars, inputVars, runVars, outcome, git, existingPr, fetchDepth, iterator, pos,
                   modified, commitMessages, pullRequest, srcHEAD, dstCommits, host, failed>>

\* prUrls.push(pullRequest.html_url): the url names the repository and the PR.
notice ==
    /\ pc = "notice"
    /\ prUrls' = Append(prUrls, <<git.repo, pullRequest>>)
    /\ outcome' = "completed"
    /\ pc' = "end"
    /\ UNCHANGED <<fileVars, blobVars, inputVars, localVars, index, sessions, output, git, srcHEAD, dstCommits,
                   host, calls, warnings, failed>>

\* forEach: the callback of one repository has returned, the next index is taken;
\* the callback's locals are gone.
forEach ==
    /\ pc = "end"
    /\ sessions' = Append(sessions,
            [repo |-> index, outcome |-> outcome, committed |-> modified # <<>>,
             workingDir |-> git.workingDir])
    /\ index' = index + 1
    /\ pc' = IF index + 1 > Len(repos) THEN "output" ELSE "init"
    /\ outcome' = ""
    /\ existingPr' = UndefinedPr
    /\ fetchDepth' = 0
    /\ iterator' = <<>>
    /\ pos' = 1
    /\ modified' = <<>>
    /\ commitMessages' = <<>>
    /\ pullRequest' = 0
    /\ metaPos' = 1
    /\ dstCommits' = <<>>
    /\ host' = NoHost
    /\ calls' = <<>>
    /\ warnings' = {}
    /\ UNCHANGED <<fileVars, blobVars, inputVars, prUrls, output, git, srcHEAD, failed>>

\* core.setOutput('pull_request_urls', prUrls) and the cleanup.
setOutput ==
    /\ pc = "output"
    /\ output' = [set |-> TRUE, urls |-> prUrls]
    /\ pc' = "done"
    /\ UNCHANGED <<fileVars, blobVars, inputVars, localVars, index, prUrls, sessions, outcome, git, srcHEAD,
                   dstCommits, host, calls, warnings, failed>>

Next ==
    \/ run
    \/ initRepo
    \/ reservePrBranchName
    \/ findExistingPr
    \/ createPrBranch
    \/ setPrWarning
    \/ deepenCheckouts
    \/ resolveForcedWalk
    \/ resolveFromPayload
    \/ resolveHeadFallback
    \/ replayCommit
    \/ checkModified
    \/ push
    \/ aggregateMessages
    \/ createOrUpdatePr
    \/ applyMetadata
    \/ notice
    \/ forEach
    \/ setOutput

Spec == Init /\ [][Next]_vars

\* Every await of run() resolves or rejects: the run does not stop while a step
\* is left to take.
FairSpec == Spec /\ WF_vars(Next)


\* ------------------------------------------------- file rules of a replay
\* Number of file rules of the repository (item.files) and of commits replayed.
NumRules == 2
NumCommits == 2

\* The session whose replay or push is followed on its own: a manual run of the
\* first repository with no PR found, standing at position p of the callback.
SessionAt(p) ==
    /\ payload = DispatchPayload
    /\ config = MakeConfig(FALSE, TRUE, FALSE, "")
    /\ index = 1
    /\ pc = p
    /\ outcome = ""
    /\ git = [repo |-> 1, workingDir |-> workingDir(repos[1]), existingPr |-> UndefinedPr,
              prBranch |-> PrBranchName(1), baseBranch |-> BaseBranchName(1)]
    /\ existingPr = UndefinedPr
    /\ fetchDepth = 0
    /\ iterator = <<>>
    /\ pos = 1
    /\ modified = <<>>
    /\ commitMessages = <<>>
    /\ pullRequest = 0
    /\ metaPos = 1
    /\ srcHEAD = MaxHist
    /\ dstCommits = <<>>
    /\ host = NoHost
    /\ calls = <<>>
    /\ warnings = {}
    /\ prUrls = <<>>
    /\ failed = FALSE
    /\ sessions = <<>>
    /\ output = NoOutput

\* File names relative to the directory that holds them.
Names == {"a", "b"}

\* The `source` of a rule as the configuration writes it: the repository root
\* or a directory below it.
SourceDirs == {<<".">>, <<"d">>}

\* path.join(dir, file): the joined path, normalised, so a leading "." is gone.
pathJoin(dir, file) == IF dir = <<".">> THEN file ELSE dir \o file

\* The `exclude` text of an item: undefined, or lines naming files relative to
\* the source.
ExcludeTexts == {[defined |-> FALSE, lines |-> {}], [defined |-> TRUE, lines |-> {"a"}]}

\* parseExclude(text, src): every line joined to the source.
parseExclude(text, src) ==
    IF ~text.defined THEN [defined |-> FALSE, paths |-> {}]
    ELSE [defined |-> TRUE, paths |-> {pathJoin(src, <<n>>) : n \in text.lines}]

\* An option of an item: unset, true or false.
Options == {"unset", "true", "false"}

\* item.x === undefined ? DEFAULT : item.x
OrDefault(option, default) == IF option = "unset" THEN default ELSE option = "true"

TEMPLATE_DEFAULT == FALSE
REPLACE_DEFAULT == TRUE
DELETE_ORPHANED_DEFAULT == FALSE

\* The items of `files` in the configuration.
Items ==
    [source : SourceDirs, template : Options, replace : Options,
     deleteOrphaned : Options, exclude : ExcludeTexts]

\* parseFiles: one rule per item.
parseFiles(item) ==
    [source |-> item.source,
     dest |-> item.source,
     template |-> OrDefault(item.template, TEMPLATE_DEFAULT),
     replace |-> OrDefault(item.replace, REPLACE_DEFAULT),
     deleteOrphaned |-> OrDefault(item.deleteOrphaned, DELETE_ORPHANED_DEFAULT),
     exclude |-> parseExclude(item.exclude, item.source)]

\* What file.source is in the source checkout: absent, a file, or a directory
\* with files below it.
SrcStates ==
    {[kind |-> "absent", files |-> {}], [kind |-> "file", files |-> {}]} \cup
    {[kind |-> "dir", files |-> f] : f \in (SUBSET Names) \ {{}}}

\* What `${ destRepo }/${ file.dest }` is in the destination checkout.
DstStates ==
    {[exists |-> FALSE, files |-> {}]} \cup
    {[exists |-> TRUE, files |-> f] : f \in SUBSET Names}

\* filterFunc of copy(): false for a path that file.exclude includes.
filterFunc(file, filePath) == ~(file.exclude.defined /\ filePath \in file.exclude.paths)

\* The template branch of a directory: listFiles(src) gives paths relative to
\* src, and filterFunc is asked about the relative path.
Rendered(src, file) == {n \in src.files : filterFunc(file, <<n>>)}

\* fs.copy(src, dest, { filter }): the filter is asked about path.join(src, item).
Copied(src, file) == {n \in src.files : filterFunc(file, pathJoin(file.source, <<n>>))}

\* A mutant of OrphanKept: the orphan is looked up by its relative path.
OrphanKeptRelative(file, destFile) ==
    file.exclude.defined /\ <<destFile>> \in file.exclude.paths

\* file.exclude !== undefined && file.exclude.includes(path.join(src, destFile))
OrphanKept(file, destFile) ==
    file.exclude.defined /\ pathJoin(file.source, <<destFile>>) \in file.exclude.paths

\* copy(src, dest, isDirectory, file): render or copy, then remove the orphans.
\* listFiles(dest) throws when nothing made the destination directory.
copy(src, dst, isDirectory, file) ==
    LET written == IF ~isDirectory THEN {}
                   ELSE IF file.template THEN Rendered(src, file)
                   ELSE Copied(src, file)
        exists1 == dst.exists \/ ~isDirectory \/ ~file.template \/ written # {}
        files1 == dst.files \cup written
        deleteOrphaned == isDirectory /\ file.deleteOrphaned
        removed == IF deleteOrphaned
                   THEN {n \in files1 \ src.files : ~OrphanKept(file, n)}
                   ELSE {}
    IN  IF deleteOrphaned /\ ~exists1
        THEN [threw |-> TRUE, dst |-> dst, written |-> written, removed |-> {}]
        ELSE [threw |-> FALSE, dst |-> [exists |-> exists1, files |-> files1 \ removed],
              written |-> written, removed |-> removed]

\* A mutant of RuleResult: an existing destination with replace disabled throws.
RuleResultStrict(file, src, dst, fails) ==
    IF src.kind = "absent" THEN "warn_missing"
    ELSE IF dst.exists /\ ~file.replace THEN "threw"
    ELSE IF fails \/ copy(src, dst, src.kind = "dir", file).threw
            \/ ~copy(src, dst, src.kind = "dir", file).dst.exists THEN "threw"
    ELSE "added"

\* How syncAndAddFile ends: with one of its two warnings, with an exception of
\* copy or of `git add` (which also fails on a path that does not exist), or
\* with the destination staged.
RuleResult(file, src, dst, fails) ==
    IF src.kind = "absent" THEN "warn_missing"
    ELSE IF dst.exists /\ ~file.replace THEN "warn_exists"
    ELSE IF fails \/ copy(src, dst, src.kind = "dir", file).threw
            \/ ~copy(src, dst, src.kind = "dir", file).dst.exists THEN "threw"
    ELSE "added"

\* The rules parseConfig() can give a repository.
FileRules == {parseFiles(item) : item \in Items}

\* One call of syncAndAddFile inside the two loops of the replay; an exception
\* leaves both loops and the callback.
syncAndAddFile ==
    /\ fpc = "apply"
    /\ \E file \in FileRules, src \in SrcStates, dst \in DstStates, fails \in BOOLEAN :
        LET result == RuleResult(file, src, dst, fails)
            copied == copy(src, dst, src.kind = "dir", file)
        IN  /\ src.kind # "dir" => dst.files = {}
            /\ app' = [result |-> result, rule |-> file, src |-> src, before |-> dst,
                       after |-> IF result = "added" THEN copied.dst ELSE dst,
                       written |-> IF result = "added" THEN copied.written ELSE {},
                       removed |-> IF result = "added" THEN copied.removed ELSE {}]
            /\ attempts' = attempts + 1
            /\ IF result = "threw"
               THEN fpc' = "failed" /\ UNCHANGED <<fCommit, fRule>>
               ELSE IF fRule < NumRules
               THEN fRule' = fRule + 1 /\ UNCHANGED <<fpc, fCommit>>
               ELSE IF fCommit < NumCommits
               THEN fCommit' = fCommit + 1 /\ fRule' = 1 /\ UNCHANGED fpc
               ELSE fpc' = "done" /\ UNCHANGED <<fCommit, fRule>>
    /\ UNCHANGED <<sessionVars, blobVars>>

CopyInit ==
    /\ SessionAt("replay")
    /\ BlobsIdle
    /\ fpc = "apply" /\ fCommit = 1 /\ fRule = 1 /\ attempts = 0
    /\ app = NoApp

CopyNext == syncAndAddFile

SpecCopy == CopyInit /\ [][CopyNext]_vars

\* ------------------------------------------ verified-commit strategy (blobs)
\* Largest number of pending commits (`git log baseBranch..HEAD`) of one push.
MaxPending == 3

\* The paths of the destination repository, in the order of `git ls-tree`, and
\* the object ids of the blobs; a blob's id stands for its content as well.
Paths == <<"a", "b">>
Blobs == {"X", "Y"}
Absent == "-"

\* A tree: the blob of every path, or Absent.
Trees == [{Paths[i] : i \in 1..Len(Paths)} -> Blobs \cup {Absent}]

\* The trees of the parent of the first pending commit and of the pending
\* commits, oldest first; a commit differs from its parent.
PendingHistories ==
    UNION { { h \in [1..(n + 1) -> Trees] : \A i \in 1..n : h[i] # h[i + 1] } :
            n \in 1..MaxPending }

\* Git.getTree(commitSha): one entry per line of `git ls-tree -r`; the empty
\* output splits into one line, whose fields are undefined.
getTree(t) ==
    LET files == SelectSeq(Paths, LAMBDA q : t[q] # Absent)
    IN  IF files = <<>> THEN << [sha |-> "undefined", path |-> "undefined"] >>
        ELSE [i \in 1..Len(files) |-> [sha |-> t[files[i]], path |-> files[i]]]

\* A mutant of PreviousTree: every pending commit is compared with the base.
PreviousTreeIsBase(commit) == getTree(trees[1])

\* this.getTree(`${ commitSha }~1`)
PreviousTree(commit) == getTree(trees[commit])

\* this.getTree(commitSha)
CommitTree(commit) == getTree(trees[commit + 1])

\* A mutant of InPreviousTree: the entry is looked up by path and object id.
InPreviousTreeSamePath(previousTree, treeEntry) ==
    \E i \in 1..Len(previousTree) :
        previousTree[i].sha = treeEntry.sha /\ previousTree[i].path = treeEntry.path

\* previousTree.findIndex((entry) => entry.sha === treeEntry.sha) !== -1
InPreviousTree(previousTree, treeEntry) ==
    \E i \in 1..Len(previousTree) : previousTree[i].sha = treeEntry.sha

\* The working directory holds the files of HEAD, the last pending commit.
WorkingTree == trees[Len(trees)]

\* Git.getBlobBase64Content(file): the file of the working directory is read;
\* path.join throws on an undefined path, readFile on a file that is not there.
CanRead(file) == file # "undefined" /\ WorkingTree[file] # Absent

getBlobBase64Content(file) == WorkingTree[file]

\* One round of `for (const treeEntry of tree)` in createGithubBlobs: the entry
\* is skipped, or its file is read and a createBlob request is sent.
createGithubBlobs ==
    /\ bpc = "blobs"
    /\ LET treeEntry == CommitTree(bCommit)[bEntry]
       IN  IF InPreviousTree(PreviousTree(bCommit), treeEntry)
           THEN /\ UNCHANGED uploads
                /\ IF bEntry < Len(CommitTree(bCommit))
                   THEN bEntry' = bEntry + 1 /\ UNCHANGED bpc
                   ELSE bpc' = "await" /\ UNCHANGED bEntry
           ELSE IF ~CanRead(treeEntry.path)
           THEN bpc' = "failed" /\ UNCHANGED <<uploads, bEntry>>
           ELSE /\ uploads' = Append(uploads,
                        [commit |-> bCommit, path |-> treeEntry.path, sha |-> treeEntry.sha,
                         content |-> getBlobBase64Content(treeEntry.path)])
                /\ IF bEntry < Len(CommitTree(bCommit))
                   THEN bEntry' = bEntry + 1 /\ UNCHANGED bpc
                   ELSE bpc' = "await" /\ UNCHANGED bEntry
    /\ UNCHANGED <<sessionVars, fileVars, trees, bCommit, remoteVars>>

\* await Promise.all(promisesGithubCreateBlobs), then the next round of
\* `for (const commitSha of commitsToPush)`; a rejected request throws.
getCommitsDataToPush ==
    /\ bpc = "await"
    /\ \E accepted \in BOOLEAN :
        IF ~accepted
        THEN bpc' = "failed" /\ UNCHANGED <<bCommit, bEntry>>
        ELSE IF bCommit + 1 < Len(trees)
        THEN bCommit' = bCommit + 1 /\ bEntry' = 1 /\ bpc' = "blobs"
        ELSE bpc' = "ref" /\ UNCHANGED <<bCommit, bEntry>>
    /\ UNCHANGED <<sessionVars, fileVars, trees, uploads, remoteVars>>

\* The sha of the clone's HEAD at initRepo (getLastCommitSha), the sha an
\* existing sync branch points to, and the sha the host gives its k-th new commit.
BaseTipSha == <<"base">>
\* A commit the base branch had before its present tip.
OlderBaseSha == <<"base~1">>
OldTipSha == <<"old">>
RemoteSha(k) == <<"remote", k>>

\* The branch the pending commits are on, as createPrBranch and the forced-push
\* reset leave it: a new branch starts at the HEAD of the clone; the branch of an
\* existing PR is the one fetched from the host, which left the base branch at
\* its present tip or before it; `git reset --hard ${ existingPr.base.sha }` puts
\* the branch on the base sha of the PR, the present tip or an older commit.
PrBranchSetups ==
    { [how |-> "new", ref |-> <<>>, sha |-> BaseTipSha] } \cup
    { [how |-> h, ref |-> OldTipSha, sha |-> c] :
        h \in {"existing", "reset"}, c \in {BaseTipSha, OlderBaseSha} }

MakeRequest(op, sha, arg, result) == [op |-> op, sha |-> sha, arg |-> arg, result |-> result]

\* this.getCommitMessage(commitSha) of the commit-th pending commit
getCommitMessage(commit) == <<"message", commit>>

\* commitsData of createGithubVerifiedCommits: message and tree of every
\* pending commit, oldest first.
commitsData ==
    [k \in 1..(Len(trees) - 1) |-> [commitMessage |-> getCommitMessage(k), tree |-> CommitTree(k)]]

\* The blobs the host has: those of the base commit and the uploaded ones.
HostBlobs ==
    {trees[1][q] : q \in DOMAIN trees[1]} \cup {uploads[i].content : i \in 1..Len(uploads)}

\* createTree answers 422 for an entry whose blob the host does not have.
TreeAcceptable(tree) == \A i \in 1..Len(tree) : tree[i].sha \in HostBlobs

\* A mutant of createRef: the answer 'Reference already exists' is rethrown
\* like every other error.
createRefRethrowsAll ==
    /\ bpc = "ref"
    /\ \E message \in {"", "Reference already exists", "Bad credentials"} :
        /\ (message = "") => (branchRef = <<>>)
        /\ (message = "Reference already exists") => (branchRef # <<>>)
        /\ requests' = Append(requests, MakeRequest("createRef", lastCommitSha, git.prBranch, message))
        /\ branchRef' = IF message = "" THEN lastCommitSha ELSE branchRef
        /\ bpc' = IF message = "" THEN "commits" ELSE "failed"
    /\ UNCHANGED <<sessionVars, fileVars, trees, bCommit, bEntry, uploads, lastCommitSha,
                   remoteCommits, pendingParent>>

\* The try/catch around github.git.createRef: the branch is created at
\* lastCommitSha; the error 'Reference already exists' is ignored, any other
\* error is thrown again.
createRef ==
    /\ bpc = "ref"
    /\ \E message \in {"", "Reference already exists", "Bad credentials"} :
        /\ (message = "") => (branchRef = <<>>)
        /\ (message = "Reference already exists") => (branchRef # <<>>)
        /\ requests' = Append(requests, MakeRequest("createRef", lastCommitSha, git.prBranch, message))
        /\ branchRef' = IF message = "" THEN lastCommitSha ELSE branchRef
        /\ bpc' = IF message \in {"", "Reference already exists"} THEN "commits" ELSE "failed"
    /\ UNCHANGED <<sessionVars, fileVars, trees, bCommit, bEntry, uploads, lastCommitSha,
                   remoteCommits, pendingParent>>

\* A mutant of Parents: the new commit is put on the tip of the branch.
ParentsAtBranchTip == <<branchRef>>

\* parents: [ this.lastCommitSha ]
Parents == <<lastCommitSha>>

\* One round of `for (const commitData of commitsData)`:
\* createGithubTreeAndCommit sends createTree, then createCommit with the tree
\* and lastCommitSha as the parent, and keeps the sha of the new commit; either
\* request can fail, and the error leaves createGithubVerifiedCommits.
createGithubTreeAndCommit ==
    /\ bpc = "commits"
    /\ LET k == Len(remoteCommits) + 1
           commitData == commitsData[k]
           treeRequest(result) == MakeRequest("createTree", <<>>, k, result)
           commitRequest(result) == MakeRequest("createCommit", Parents, k, result)
       IN  \E treeCreated \in {b \in BOOLEAN : b => TreeAcceptable(commitData.tree)},
              commitCreated \in BOOLEAN :
            IF ~treeCreated
            THEN /\ requests' = Append(requests, treeRequest("Cannot create a new GitHub Tree"))
                 /\ bpc' = "failed"
                 /\ UNCHANGED <<lastCommitSha, remoteCommits>>
            ELSE IF ~commitCreated
            THEN /\ requests' = requests \o <<treeRequest(""), commitRequest("Server Error")>>
                 /\ bpc' = "failed"
                 /\ UNCHANGED <<lastCommitSha, remoteCommits>>
            ELSE /\ requests' = requests \o <<treeRequest(""), commitRequest("")>>
                 /\ remoteCommits' = Append(remoteCommits,
                        [sha |-> RemoteSha(k), parents |-> Parents,
                         message |-> commitData.commitMessage, tree |-> commitData.tree])
                 /\ lastCommitSha' = RemoteSha(k)
                 /\ bpc' = IF k < Len(commitsData) THEN "commits" ELSE "update"
    /\ UNCHANGED <<sessionVars, fileVars, trees, bCommit, bEntry, uploads, branchRef, pendingParent>>

\* A mutant of updateRef: the host answers but leaves the branch where it is.
updateRefKeepsBranch ==
    /\ bpc = "update"
    /\ \E updated \in BOOLEAN :
        /\ requests' = Append(requests,
                MakeRequest("updateRef", lastCommitSha, git.prBranch,
                            IF updated THEN "" ELSE "Server Error"))
        /\ bpc' = IF updated THEN "done" ELSE "failed"
    /\ UNCHANGED <<sessionVars, fileVars, trees, bCommit, bEntry, uploads, lastCommitSha,
                   remoteCommits, branchRef, pendingParent>>

\* github.git.updateRef({ ref: heads/<prBranch>, sha: this.lastCommitSha,
\* force: true }): the branch is moved wherever it was.
updateRef ==
    /\ bpc = "update"
    /\ \E updated \in BOOLEAN :
        /\ requests' = Append(requests,
                MakeRequest("updateRef", lastCommitSha, git.prBranch,
                            IF updated THEN "" ELSE "Server Error"))
        /\ branchRef' = IF updated THEN lastCommitSha ELSE branchRef
        /\ bpc' = IF updated THEN "done" ELSE "failed"
    /\ UNCHANGED <<sessionVars, fileVars, trees, bCommit, bEntry, uploads, lastCommitSha,
                   remoteCommits, pendingParent>>

VerifiedCommitsInit ==
    /\ SessionAt("push")
    /\ FilesIdle
    /\ bpc = "blobs"
    /\ trees \in PendingHistories
    /\ bCommit = 1
    /\ bEntry = 1
    /\ uploads = <<>>
    /\ lastCommitSha = BaseTipSha
    /\ remoteCommits = <<>>
    /\ \E setup \in PrBranchSetups :
        /\ branchRef = setup.ref
        /\ pendingParent = [how |-> setup.how, sha |-> setup.sha]
    /\ requests = <<>>

VerifiedCommitsNext ==
    \/ createGithubBlobs
    \/ getCommitsDataToPush
    \/ createRef
    \/ createGithubTreeAndCommit
    \/ updateRef

SpecVerifiedCommits == VerifiedCommitsInit /\ [][VerifiedCommitsNext]_vars

\* ------------------------------------------------------------------ claims
\* The callback has built its iterator and has not thrown since.
Resolved ==
    \/ pc \in {"replay", "push", "messages", "pr", "meta", "notice"}
    \/ pc = "end" /\ outcome \in {"noop", "completed"}

CallsOf(ops) == SelectSeq(calls, LAMBDA c : c.op \in ops)

IteratorShas == [i \in 1..Len(iterator) |-> iterator[i].sha]

\* C1: on a non-forced push with a non-empty commit list the iterator is the
\* payload's commit list, sha and message, in the payload's order, with or
\* without an existing PR; the replay visits exactly those commits.
C1_ReplayIsPayloadList ==
    (payload.event = "push" /\ ~payload.forced /\ payload.commits # <<>> /\ Resolved) =>
        /\ Len(iterator) = Len(payload.commits)
        /\ \A i \in 1..Len(iterator) :
            /\ iterator[i].sha = payload.commits[i].id
            /\ iterator[i].message = payload.commits[i].message
        /\ pos <= Len(iterator) + 1
        /\ (pos > 1 => srcHEAD = payload.commits[pos - 1].id)

C1_Witness ==
    /\ payload.event = "push" /\ ~payload.forced /\ Len(payload.commits) >= 2
    /\ IsDefined(existingPr)
    /\ pc = "end" /\ outcome = "completed"
    /\ srcHEAD = payload.commits[Len(payload.commits)].id

\* C2: on a forced push with an existing PR whose body carries the anchor A (a
\* commit of the source history) and with source HEAD H, the iterator is the
\* history strictly after A up to and including H, oldest first.
C2_ForcedWalkIsHistoryAfterAnchor ==
    (/\ payload.forced /\ IsDefined(existingPr)
     /\ existingPr.body.anchor \in Shas
     /\ pc = "replay" /\ pos = 1) =>
        IteratorShas = [i \in 1..(IF srcHEAD > existingPr.body.anchor
                                   THEN srcHEAD - existingPr.body.anchor ELSE 0) |->
                            existingPr.body.anchor + i]

\* C3: on a forced push with an existing PR whose anchor is the source HEAD the
\* iterator is empty and the session is a no-op: nothing replayed, no
\* destination commit, no push, no error.
C3_AnchorAtHeadIsNoop ==
    (/\ payload.forced /\ IsDefined(existingPr)
     /\ existingPr.body.anchor \in Shas
     /\ existingPr.body.anchor = srcHEAD
     /\ pc \notin {"branch", "warn", "deepen", "resolve"}) =>
        /\ iterator = <<>>
        /\ modified = <<>>
        /\ CallsOf({"push"}) = <<>>
        /\ pc \in {"replay", "end"}
        /\ (pc = "end" => outcome = "noop")

\* C4: while a session works on a PR it found, the anchor in the PR's body on the
\* host stays the anchor of the body found, whatever payload.before is; a PR the
\* session created carries payload.before.
C4_AnchorIsTheFoundOne ==
    /\ (IsDefined(existingPr) /\ existingPr.body.anchor # Undefined) =>
            /\ host.pr.number = existingPr.number
            /\ host.pr.body.anchor = existingPr.body.anchor
    /\ (~IsDefined(existingPr) /\ IsDefined(host.pr)) =>
            host.pr.body.anchor = payload.before

C4_Witness ==
    /\ IsDefined(existingPr)
    /\ existingPr.body.anchor \in Shas
    /\ payload.before \in Shas
    /\ payload.before # existingPr.body.anchor
    /\ CallsOf({"update"}) # <<>>
    /\ host.pr.body.verb = "updated"

\* A body whose srcRepoBeforeRef comment is missing or names no commit of the
\* source history.
AnchorMissingOrMalformed(body) == body.anchor \notin Shas

CreatedFromFullPayload ==
    /\ payload.event = "push" /\ ~payload.forced
    /\ ~IsDefined(existingPr)
    /\ CallsOf({"create"}) # <<>>
    /\ Len(modified) = Len(payload.commits)

\* C6 as claimed: that PR's title is the '; '-joined first lines of the
\* destination commit messages (issue references rewritten to absolute URLs,
\* 'https://github.com/' included) and its body carries payload.before.
C6_TitleIsJoinedCommitMessages ==
    CreatedFromFullPayload =>
        /\ host.pr.title = JoinSemicolon([i \in 1..Len(modified) |-> FirstLine(modified[i])])
        /\ host.pr.body.anchor = payload.before

\* C6 as amended: the title is the '; '-joined first lines of the payload
\* messages with the issue references rewritten and then the first
\* 'https://github.com/' of each message removed; the body carries payload.before.
C6_TitleIsJoinedStrippedMessages ==
    CreatedFromFullPayload =>
        /\ host.pr.title =
            JoinSemicolon([i \in 1..Len(payload.commits) |->
                FirstLine(StripFirstGithubPrefix(RewriteIssueRefs(payload.commits[i].message)))])
        /\ \A i \in 1..Len(modified) :
            modified[i] = RewriteIssueRefs(payload.commits[i].message)
        /\ host.pr.body.anchor = payload.before
        /\ host.pr.body.banner = <<>>

\* "fix (#42)" and "docs (#7) #8\nmore" give the title
\* "fix (o/r/pull/42); docs (o/r/pull/7) https://github.com/o/r/pull/8".
C6_Witness ==
    /\ CreatedFromFullPayload
    /\ Len(payload.commits) = 2
    /\ payload.commits[1].message = <<"fix ", "(", "#42", ")">>
    /\ modified[1] = <<"fix ", "(", GH, "o/r", "/pull/", "42", ")">>
    /\ host.pr.title = <<"fix ", "(", "o/r", "/pull/", "42", ")", "; ",
                         "docs ", "(", "o/r", "/pull/", "7", ")", " ",
                         GH, "o/r", "/pull/", "8">>
    /\ host.pr.body.anchor = payload.before

\* C7: a session that found an open PR and committed nothing has pushed
\* nothing, created no PR, and leaves the PR body on the host equal to the body
\* it found, without a warning banner.
C7_NoChangeLeavesPrClean ==
    (IsDefined(existingPr) /\ pc = "end" /\ outcome = "noop") =>
        /\ modified = <<>>
        /\ CallsOf({"push", "create", "update"}) = <<>>
        /\ host.pr.body = existingPr.body
        /\ host.pr.body.banner = <<>>

MetadataOps == {"labels", "assignees", "reviewers", "team_reviewers", "auto_merge"}

\* C8: a session sends at most one of pulls.update (title and body) and
\* pulls.create; with a PR found it never creates and every update goes to that
\* PR; without one it never updates, the create goes from the sync branch to
\* the base branch and its result is this.existingPr; every metadata call goes to
\* the PR that was updated or created.
C8_UpdateXorCreate ==
    /\ Len(CallsOf({"create", "update"})) <= 1
    /\ IsDefined(existingPr) =>
            /\ CallsOf({"create"}) = <<>>
            /\ \A i \in 1..Len(calls) :
                calls[i].op \in {"update", "update_body"} => calls[i].pr = existingPr.number
    /\ ~IsDefined(existingPr) =>
            /\ CallsOf({"update", "update_body"}) = <<>>
            /\ \A i \in 1..Len(calls) :
                calls[i].op = "create" =>
                    /\ calls[i].head[2] = PrBranchName(index)
                    /\ calls[i].base = BaseBranchName(index)
                    /\ git.existingPr.number = calls[i].pr
                    /\ host.pr.number = calls[i].pr
    /\ \A i \in 1..Len(calls) :
            calls[i].op \in MetadataOps =>
                /\ CallsOf({"create", "update"}) # <<>>
                /\ calls[i].pr = CallsOf({"create", "update"})[1].pr
                /\ calls[i].pr = host.pr.number

C8_Witness ==
    /\ ~IsDefined(existingPr)
    /\ CallsOf({"create"}) # <<>>
    /\ CallsOf({"labels"}) # <<>>
    /\ pc = "end" /\ outcome = "completed"

\* C9: the repositories are processed once each in configuration order, the run
\* does not end before all of them were, whatever failed on the way, and a
\* failed session marks the run failed.
C9_FailureIsolatedPerRepo ==
    /\ Len(sessions) = index - 1
    /\ \A i \in 1..Len(sessions) : sessions[i].repo = i
    /\ (pc \in {"output", "done"}) <=> (Len(sessions) = NumRepos)
    /\ (pc \notin {"output", "done"}) => git.repo \in {index, index - 1}
    /\ (\E i \in 1..Len(sessions) : sessions[i].outcome = "failed") => failed
    /\ (pc = "end" /\ outcome = "failed") => failed

C9_Witness ==
    /\ pc = "done"
    /\ sessions[1].outcome = "failed"
    /\ sessions[NumRepos].outcome = "completed"
    /\ failed

UrlRepos == [k \in 1..Len(output.urls) |-> output.urls[k][1]]

ReposOf(ss) == [k \in 1..Len(ss) |-> ss[k].repo]

\* C10 as claimed: the output holds one URL for each repository whose session
\* committed to the destination branch, in processing order, and none for the rest.
C10_UrlPerCommittingSession ==
    pc = "done" =>
        /\ output.set
        /\ UrlRepos = ReposOf(SelectSeq(sessions, LAMBDA x : x.committed))

\* C10 as amended: the output holds one URL for each repository whose session
\* committed and then ran to its end without an exception, in processing order;
\* none for a no-op session or for one that failed.
C10_UrlPerCompletedSession ==
    /\ \A i \in 1..Len(sessions) :
        /\ sessions[i].outcome = "completed" => sessions[i].committed
        /\ sessions[i].outcome = "noop" => ~sessions[i].committed
    /\ pc = "done" =>
        /\ output.set
        /\ UrlRepos = ReposOf(SelectSeq(sessions, LAMBDA x : x.outcome = "completed"))
        /\ \A k \in 1..Len(output.urls) : output.urls[k][2] # 0

C10_Witness ==
    /\ pc = "done"
    /\ sessions[1].outcome = "failed" /\ sessions[1].committed
    /\ sessions[NumRepos].outcome = "completed"
    /\ Len(output.urls) = 1

\* C11: the list handed to createOrUpdatePr follows the decision table: forced
\* push -> the messages of the destination commits made in this run; not forced
\* and a PR existed -> the messages of the commits the PR had when it was found,
\* then the payload's messages, nothing else; otherwise the payload's messages.
C11_MessagesFollowDecisionTable ==
    pc \in {"pr", "meta", "notice"} =>
        commitMessages =
            IF payload.forced THEN modified
            ELSE IF IsDefined(existingPr) THEN existingPr.commits \o PayloadMessages
            ELSE PayloadMessages

\* C12: a run whose payload has no commit list replays the one-element list
\* holding the sha and the message of the source checkout's HEAD.
C12_DispatchReplaysHead ==
    (payload.event = "workflow_dispatch" /\ Resolved) =>
        /\ iterator = << [sha |-> MaxHist, message |-> SrcMessage(MaxHist)] >>
        /\ srcHEAD = MaxHist

C12_Witness ==
    /\ payload.event = "workflow_dispatch"
    /\ pc = "replay" /\ pos = 2
    /\ IsDefined(existingPr)
    /\ iterator[1].sha = srcHEAD

\* The metadata blocks the callback has gone through.
MetadataDone == IF pc = "meta" THEN metaPos - 1 ELSE Len(MetadataKinds)

\* C15: a failing metadata call becomes a warning: the blocks after it still
\* make their calls, the callback ends completed with its URL pushed, and the
\* run is marked failed only by a callback that ended in the catch.
C15_MetadataFailureIsWarning ==
    /\ failed <=> (\/ pc = "rejected"
                   \/ outcome = "failed"
                   \/ \E i \in 1..Len(sessions) : sessions[i].outcome = "failed")
    /\ (pc \in {"meta", "notice"} \/ (pc = "end" /\ outcome = "completed")) =>
        /\ [i \in 1..Len(CallsOf(MetadataOps)) |-> CallsOf(MetadataOps)[i].op] =
               SelectSeq(SubSeq(MetadataKinds, 1, MetadataDone), MetadataWanted)
        /\ \A k \in warnings : MetadataWanted(k) /\ CallsOf({k}) # <<>>
    /\ (pc = "end" /\ CallsOf({"create", "update"}) # <<>>) =>
        /\ outcome = "completed"
        /\ prUrls # <<>> /\ prUrls[Len(prUrls)] = <<git.repo, pullRequest>>

C15_Witness ==
    /\ pc = "end" /\ outcome = "completed"
    /\ "labels" \in warnings
    /\ CallsOf({"auto_merge"}) # <<>>
    /\ ~failed
    /\ prUrls = << <<git.repo, pullRequest>> >>

\* C16: with FORK configured no session makes any of the five metadata calls.
C16_ForkSkipsMetadata ==
    config.FORK # FALSE => CallsOf(MetadataOps) = <<>>

\* C17: an auto-merge method other than MERGE, REBASE, SQUASH (in any case) is
\* fatal to the session: no auto-merge request carries it, the callback does
\* not reach its end, and the run is marked failed.
C17_BadMergeMethodIsFatal ==
    (/\ config.AUTO_MERGE_MERGE_METHOD # ""
     /\ toUpperCase(config.AUTO_MERGE_MERGE_METHOD) \notin MergeMethods) =>
        /\ CallsOf({"auto_merge"}) = <<>>
        /\ pc # "notice"
        /\ (pc = "end" /\ CallsOf({"create", "update"}) # <<>>) => (outcome = "failed" /\ failed)

\* C18 as claimed: whatever goes wrong in one call of syncAndAddFile (source
\* missing, destination present with replace disabled, copy/render/stage
\* failing), the callback is not left: every rule of every commit gets its call.
C18_RuleErrorIsIsolated ==
    /\ fpc # "failed"
    /\ fpc = "apply" => attempts = (fCommit - 1) * NumRules + (fRule - 1)
    /\ fpc = "done" => attempts = NumCommits * NumRules

\* C18 as amended: the two warnings end only that call and leave the
\* destination as it was, the next rule or commit follows; an exception of
\* copy, render or `git add` leaves the callback, no later rule or commit
\* gets a call.
C18_OnlyWarningsAreIsolated ==
    /\ fpc = "apply" => attempts = (fCommit - 1) * NumRules + (fRule - 1)
    /\ fpc = "done" => attempts = NumCommits * NumRules /\ app.result # "threw"
    /\ fpc = "failed" =>
        /\ app.result = "threw"
        /\ attempts = (fCommit - 1) * NumRules + fRule
    /\ app.result = "threw" => fpc = "failed"
    /\ app.result \in {"warn_missing", "warn_exists"} =>
        /\ app.after = app.before
        /\ fpc # "failed"
    /\ app.result = "warn_missing" <=> (attempts > 0 /\ app.src.kind = "absent")
    /\ app.result = "warn_exists" <=>
        (attempts > 0 /\ app.src.kind # "absent" /\ app.before.exists /\ ~app.rule.replace)

C18_Witness ==
    /\ fpc = "apply"
    /\ fCommit = 2 /\ fRule = 1
    /\ app.result = "warn_exists"
    /\ app.before.files = {"a"}

\* The last call of syncAndAddFile went through copy() for a directory.
AppliedDirectory == app.result = "added" /\ app.src.kind = "dir"

\* C19: a directory rule with deleteOrphaned leaves no file under the
\* destination that is not under the source, except the orphans whose path
\* (joined to the source) is in the exclude set, which all stay; without
\* deleteOrphaned, or for a single file, nothing under the destination is removed.
C19_OrphansRemovedUnlessExcluded ==
    app.result = "added" =>
        IF app.src.kind = "dir" /\ app.rule.deleteOrphaned
        THEN \A n \in Names \ app.src.files :
                /\ n \in app.after.files <=>
                      (/\ n \in app.before.files
                       /\ app.rule.exclude.defined
                       /\ pathJoin(app.rule.source, <<n>>) \in app.rule.exclude.paths)
                /\ n \in app.removed <=> (n \in app.before.files /\ n \notin app.after.files)
        ELSE /\ app.before.files \subseteq app.after.files
             /\ app.removed = {}

C19_Witness ==
    /\ AppliedDirectory /\ app.rule.deleteOrphaned
    /\ app.rule.source = <<"d">>
    /\ app.src.files = {"b"}
    /\ app.before.files = {"a", "b"}
    /\ app.rule.exclude.defined
    /\ "a" \in app.after.files

\* C20: a template directory rule renders every file under the source except
\* those whose path is in the exclude set that parseExclude built.
C20_TemplateSkipsExcluded ==
    (AppliedDirectory /\ app.rule.template) =>
        app.written =
            {n \in app.src.files :
                ~(app.rule.exclude.defined
                  /\ pathJoin(app.rule.source, <<n>>) \in app.rule.exclude.paths)}

\* The object ids of a tree, and the requests sent for one pending commit.
BlobsOf(t) == {t[Paths[i]] : i \in 1..Len(Paths)} \ {Absent}

UploadsOf(commit) == SelectSeq(uploads, LAMBDA u : u.commit = commit)

\* getCommitsDataToPush returned: createGithubBlobs went through the tree of
\* every pending commit and every createBlob request was answered.
AllBlobsCreated == bpc \in {"ref", "commits", "update", "done"}

\* createGithubBlobs went through the whole tree of this pending commit.
BlobsCreated(commit) ==
    commit < bCommit \/ (commit = bCommit /\ (bpc = "await" \/ AllBlobsCreated))

\* C13 as claimed: while one commit is published no object id is requested
\* twice, and none that the parent's tree has is requested.
C13_BlobUploadedOncePerCommit ==
    /\ \A i, j \in 1..Len(uploads) :
        (i # j /\ uploads[i].commit = uploads[j].commit) => uploads[i].sha # uploads[j].sha
    /\ \A i \in 1..Len(uploads) : uploads[i].sha \notin BlobsOf(trees[uploads[i].commit])

\* C13 as amended: one createBlob request per tree entry whose object id the
\* parent's tree does not have, in the order of the tree, so an id that several
\* such entries carry is requested once for each; none for an entry whose id
\* the parent's tree has.
C13_OneUploadPerNewEntry ==
    /\ \A i \in 1..Len(uploads) : uploads[i].sha \notin BlobsOf(trees[uploads[i].commit])
    /\ \A c \in 1..(Len(trees) - 1) :
        BlobsCreated(c) =>
            [i \in 1..Len(UploadsOf(c)) |-> UploadsOf(c)[i].path] =
                SelectSeq(Paths, LAMBDA q :
                    trees[c + 1][q] # Absent /\ trees[c + 1][q] \notin BlobsOf(trees[c]))
    /\ \A i \in 1..Len(uploads) :
        uploads[i].sha = trees[uploads[i].commit + 1][uploads[i].path]

C13_Witness ==
    /\ AllBlobsCreated
    /\ Len(trees) = 3
    /\ BlobsOf(trees[1]) = {"Y"}
    /\ trees[2]["a"] = "X" /\ trees[2]["b"] = "X"
    /\ trees[3]["a"] = "X" /\ trees[3]["b"] = "Y"
    /\ Len(UploadsOf(1)) = 2
    /\ Len(UploadsOf(2)) = 1

\* The requests that carried this content, over the whole push.
UploadsOfContent(blob) == {i \in 1..Len(uploads) : uploads[i].content = blob}

UploadsOfId(blob) == {i \in 1..Len(uploads) : uploads[i].sha = blob}

\* C14 as claimed: when the trees of two pending commits, adjacent or not, have
\* a file of the same content, that content is uploaded exactly once in the push.
C14_SharedBlobUploadedOnce ==
    AllBlobsCreated =>
        \A c, d \in 1..(Len(trees) - 1) : \A blob \in Blobs :
            (c < d /\ blob \in BlobsOf(trees[c + 1]) /\ blob \in BlobsOf(trees[d + 1])) =>
                Cardinality(UploadsOfContent(blob)) = 1

\* C14 as amended: for a pending commit and its pending parent with the same
\* object id in their trees, no request for that id is sent while the child is
\* published; over the whole push an id is requested once for every entry of a
\* pending commit that carries it while the parent's tree lacks it.
C14_SharedBlobSkippedForChild ==
    /\ \A c \in 2..(Len(trees) - 1) : \A blob \in Blobs :
        (blob \in BlobsOf(trees[c]) /\ blob \in BlobsOf(trees[c + 1])) =>
            \A i \in UploadsOfId(blob) : uploads[i].commit # c
    /\ AllBlobsCreated =>
        \A blob \in Blobs :
            Cardinality(UploadsOfId(blob)) =
                Cardinality({ x \in (1..(Len(trees) - 1)) \X (1..Len(Paths)) :
                                /\ trees[x[1] + 1][Paths[x[2]]] = blob
                                /\ blob \notin BlobsOf(trees[x[1]]) })

C14_Witness ==
    /\ AllBlobsCreated
    /\ Len(trees) = 4
    /\ BlobsOf(trees[1]) = {}
    /\ BlobsOf(trees[2]) = {"X"} /\ BlobsOf(trees[3]) = {"Y"} /\ BlobsOf(trees[4]) = {"X"}
    /\ Cardinality(UploadsOfId("X")) = 2

\* The positions of the callback of one repository after initRepo was called.
InSession ==
    pc \in {"reserve", "find", "branch", "warn", "deepen", "resolve", "replay", "push",
            "messages", "pr", "meta", "notice", "end"}

\* C21: one session at a time, each in a working directory of its own: the
\* sessions before the current one have all ended, and no two sessions of the
\* run have the same working directory.
C21_SessionsSequentialInOwnDirs ==
    /\ Len(sessions) = index - 1
    /\ \A i, j \in 1..Len(sessions) : i # j => sessions[i].workingDir # sessions[j].workingDir
    /\ InSession =>
        /\ index <= Len(repos)
        /\ git.workingDir = workingDir(repos[index])
        /\ \A i \in 1..Len(sessions) : sessions[i].workingDir # git.workingDir
    /\ ~InSession => outcome = ""

C21_Witness ==
    /\ pc = "done"
    /\ Len(sessions) = NumRepos
    /\ sessions[1].outcome = "failed"
    /\ sessions[1].workingDir # sessions[NumRepos].workingDir
    /\ sessions[NumRepos].workingDir = git.workingDir

\* C22 as claimed: every run comes to its cleanup, the runs with failed
\* sessions and the runs that fail before the first session included.
C22_CleanupOnEveryRun == <>(pc = "done")

\* C22 as amended: a run that got its repositories from parseConfig() comes to
\* its cleanup whatever its sessions did; a run rejected before that never had a
\* session, is marked failed and ends without the cleanup.
C22_CleanupAfterSessions ==
    /\ (pc = "init") ~> (pc = "done")
    /\ [](pc = "rejected" => (sessions = <<>> /\ failed /\ ~output.set))

C22_Witness ==
    /\ pc = "done"
    /\ failed
    /\ \A i \in 1..Len(sessions) : sessions[i].outcome = "failed"
    /\ output.set

\* What the create-ref request answered: "" when the branch was created.
CreateRefAnswer == requests[1].result

RequestsOf(ops) == SelectSeq(requests, LAMBDA r : r.op \in ops)

\* C23: the create-ref request is sent once, for the PR branch at the initial
\* lastCommitSha; after the answer 'Reference already exists' the branch is left
\* as found and publishing goes on to the commits and the forced update of the
\* ref; after any other failure the strategy has thrown with no remote commit
\* made and the branch as found.
C23_CreateRefIdempotent ==
    /\ AllBlobsCreated /\ bpc # "ref" => requests # <<>>
    /\ requests # <<>> =>
        /\ requests[1] = MakeRequest("createRef", BaseTipSha, git.prBranch, CreateRefAnswer)
        /\ Len(RequestsOf({"createRef"})) = 1
        /\ (CreateRefAnswer = "") =>
            (Len(requests) = 1 => (bpc = "commits" /\ branchRef = BaseTipSha))
        /\ (CreateRefAnswer = "Reference already exists") =>
            /\ Len(requests) = 1 =>
                (bpc = "commits" /\ branchRef = OldTipSha /\ remoteCommits = <<>>)
            /\ bpc = "done" =>
                /\ Len(remoteCommits) = Len(commitsData)
                /\ requests[Len(requests)] =
                        MakeRequest("updateRef", lastCommitSha, git.prBranch, "")
                /\ branchRef = lastCommitSha
        /\ (CreateRefAnswer \notin {"", "Reference already exists"}) =>
            /\ bpc = "failed"
            /\ Len(requests) = 1
            /\ remoteCommits = <<>>
            /\ lastCommitSha = BaseTipSha
            /\ branchRef \in {<<>>, OldTipSha}

C23_Witness ==
    /\ bpc = "done"
    /\ CreateRefAnswer = "Reference already exists"
    /\ Len(remoteCommits) = 2
    /\ branchRef = RemoteSha(2)

\* The commits met walking back n parents from sha on the host, newest first.
RECURSIVE WalkBack(_, _)
WalkBack(sha, n) ==
    IF n = 0 THEN <<>>
    ELSE LET c == CHOOSE c \in {remoteCommits[i] : i \in 1..Len(remoteCommits)} : c.sha = sha
         IN  << [commitMessage |-> c.message, tree |-> c.tree] >> \o WalkBack(c.parents[1], n - 1)

Reverse(s) == [i \in 1..Len(s) |-> s[Len(s) + 1 - i]]

\* C24: the k-th remote commit has the message and the tree entries of the k-th
\* pending commit and one parent, the (k-1)-th remote commit or, for the first,
\* the initial lastCommitSha; lastCommitSha is the newest remote commit; once
\* all is published, walking back from the tip of the branch gives the pending
\* commits newest first and ends at the initial lastCommitSha.
C24_PublishedCommitsRoundTrip ==
    /\ \A k \in 1..Len(remoteCommits) :
        /\ remoteCommits[k].parents =
                << IF k = 1 THEN BaseTipSha ELSE remoteCommits[k - 1].sha >>
        /\ remoteCommits[k].message = commitsData[k].commitMessage
        /\ remoteCommits[k].tree = commitsData[k].tree
        /\ \A j \in 1..Len(remoteCommits) :
                (j # k) => (remoteCommits[j].sha # remoteCommits[k].sha)
    /\ lastCommitSha = IF remoteCommits = <<>> THEN BaseTipSha
                       ELSE remoteCommits[Len(remoteCommits)].sha
    /\ bpc = "done" =>
        /\ Len(remoteCommits) = Len(trees) - 1
        /\ WalkBack(branchRef, Len(trees) - 1) = Reverse(commitsData)
        /\ remoteCommits[1].parents = <<BaseTipSha>>

C24_Witness ==
    /\ bpc = "done"
    /\ Len(remoteCommits) = 3
    /\ remoteCommits[1].tree # remoteCommits[3].tree
    /\ WalkBack(branchRef, 3)[1].commitMessage = getCommitMessage(3)
    /\ WalkBack(branchRef, 3)[3].commitMessage = getCommitMessage(1)

\* C25: after the create-ref request the requests are createTree and
\* createCommit of the first pending commit, then of the second, and so on, each
\* commit on the one before; updateRef is sent at most once, as the last request,
\* after every pending commit was made, for the last of them; when a createTree or
\* createCommit failed the strategy has thrown, no updateRef was sent and the
\* branch is where the create-ref request left it.
C25_CommitsInOrderRefMovedOnce ==
    /\ \A i \in 2..Len(requests) :
        (requests[i].op # "updateRef") =>
            /\ requests[i].op = IF i % 2 = 0 THEN "createTree" ELSE "createCommit"
            /\ requests[i].arg = i \div 2
            /\ (requests[i].op = "createCommit") =>
                requests[i].sha =
                    << IF i \div 2 = 1 THEN BaseTipSha ELSE RemoteSha((i \div 2) - 1) >>
            /\ (requests[i].result # "") => (i = Len(requests) /\ bpc = "failed")
    /\ Len(RequestsOf({"updateRef"})) <= 1
    /\ RequestsOf({"updateRef"}) # <<>> =>
        /\ requests[Len(requests)].op = "updateRef"
        /\ Len(requests) = 2 * Len(commitsData) + 2
        /\ Len(remoteCommits) = Len(commitsData)
        /\ requests[Len(requests)].sha = remoteCommits[Len(remoteCommits)].sha
    /\ bpc = "done" =>
        /\ RequestsOf({"updateRef"}) # <<>>
        /\ branchRef = remoteCommits[Len(remoteCommits)].sha
    /\ (\E i \in 1..Len(requests) :
            requests[i].op \in {"createTree", "createCommit"} /\ requests[i].result # "") =>
        /\ RequestsOf({"updateRef"}) = <<>>
        /\ branchRef = IF CreateRefAnswer = "" THEN BaseTipSha ELSE OldTipSha

C25_Witness ==
    /\ bpc = "failed"
    /\ Len(commitsData) = 3
    /\ Len(remoteCommits) = 2
    /\ requests[Len(requests)].op = "createCommit"
    /\ requests[Len(requests)].result # ""
    /\ branchRef = OldTipSha

RECURSIVE IsSubSeq(_, _)
IsSubSeq(a, b) ==
    IF a = <<>> THEN TRUE
    ELSE IF b = <<>> THEN FALSE
    ELSE IF Head(a) = Head(b) THEN IsSubSeq(Tail(a), Tail(b))
    ELSE IsSubSeq(a, Tail(b))

\* The messages of the source commits replayed so far, every #N rewritten.
ReplayedMessages == [i \in 1..(pos - 1) |-> RewriteIssueRefs(iterator[i].message)]

\* A message in which each `(#N)`, parentheses included, is replaced by the
\* pull-request URL, and nothing else is.
RECURSIVE RewriteParenthesisedRefs(_)
RewriteParenthesisedRefs(msg) ==
    IF msg = <<>> THEN <<>>
    ELSE IF Len(msg) >= 3 /\ msg[1] = "(" /\ msg[2] \in IssueRefs /\ msg[3] = ")"
    THEN HtmlUrl \o <<"/pull/", IssueNumber(msg[2])>>
            \o RewriteParenthesisedRefs(SubSeq(msg, 4, Len(msg)))
    ELSE <<Head(msg)>> \o RewriteParenthesisedRefs(Tail(msg))

C26_ReplayState ==
    /\ pos - 1 <= Len(iterator)
    /\ IsSubSeq(modified, ReplayedMessages)
    /\ Len(modified) <= Len(dstCommits)
    /\ SubSeq(dstCommits, Len(dstCommits) - Len(modified) + 1, Len(dstCommits)) = modified
    /\ \A i \in 1..Len(modified) :
        /\ modified[i] # <<>>
        /\ \A k \in 1..Len(modified[i]) : modified[i][k] \notin IssueRefs
    /\ (pc = "end" /\ outcome = "noop") => (modified = <<>>)
    /\ (modified = <<>>) => (CallsOf({"push", "create", "update"}) = <<>>)

C26_ReplayStep ==
    (pc = "replay" /\ pos' = pos + 1) =>
        \/ modified' = modified /\ dstCommits' = dstCommits
        \/ /\ modified' = Append(modified, RewriteIssueRefs(iterator[pos].message))
           /\ dstCommits' = Append(dstCommits, RewriteIssueRefs(iterator[pos].message))

C27_BannerIdempotentReversible ==
    IsDefined(git.existingPr) =>
        /\ (pc = "deepen") => (Len(host.pr.body.banner) = 1)
        /\ (pc = "replay" /\ pos > 1 /\ Len(modified) < pos - 1 /\ calls # <<>>
                /\ calls[Len(calls)].op = "update_body" /\ pullRequest = 0) =>
            (host.pr.body = git.existingPr.body)

\* C28: on a forced push with an existing PR the replay starts on the base of
\* the PR, the destination branch holds the destination commits of this session
\* and nothing else, and that is what a push publishes.
C28_ForcedReplayStartsFromBase ==
    (payload.forced /\ IsDefined(existingPr)) =>
        /\ (pc \in {"warn", "deepen", "resolve"}) => (dstCommits = existingPr.commits)
        /\ (pc = "replay" /\ pos = 1) => (dstCommits = <<>>)
        /\ (pc \in {"replay", "push", "messages", "pr", "meta", "notice"}) =>
            (dstCommits = modified)
        /\ (CallsOf({"push"}) # <<>>) =>
            /\ host.branch = modified
            /\ \A i \in 1..Len(host.branch) : host.branch[i] # OldMessage

C28_Witness ==
    /\ payload.forced
    /\ IsDefined(existingPr)
    /\ existingPr.commits # <<>>
    /\ CallsOf({"push"}) # <<>>
    /\ Len(modified) = 2
    /\ host.branch = modified

\* C29: a session whose push succeeded goes on to the PR create or update call.
C29_PushThenPrCall == [][(pc = "messages") => (pc' = "pr")]_vars

\* C30: every session starts with the source checkout at the commit that
\* triggered the run.
C30_SessionStartsAtTriggeringCommit == (pc = "init") => (srcHEAD = MaxHist)

\* createGithubBlobs threw while reading the file of a tree entry that names a
\* file and is not in the previous tree.
BlobReadFailed ==
    /\ bpc = "failed"
    /\ requests = <<>>
    /\ LET treeEntry == CommitTree(bCommit)[bEntry]
       IN  /\ treeEntry.path # "undefined"
           /\ ~InPreviousTree(PreviousTree(bCommit), treeEntry)
           /\ ~CanRead(treeEntry.path)

\* C31: the content sent with each createBlob request is the content the
\* pending commit holds for that path, whose id the entry carries; no upload
\* fails because a later pending commit changed or removed the file; every blob
\* a created remote tree names is on the host.
C31_UploadedContentIsCommitVersion ==
    /\ \A i \in 1..Len(uploads) :
        uploads[i].content = trees[uploads[i].commit + 1][uploads[i].path]
    /\ ~BlobReadFailed
    /\ \A k \in 1..Len(remoteCommits) : TreeAcceptable(remoteCommits[k].tree)

\* C32: the parent of the first remote commit is the commit below the first
\* pending commit of the destination checkout, however the PR branch was set up.
C32_FirstParentIsPendingParent ==
    (remoteCommits # <<>>) => (remoteCommits[1].parents = <<pendingParent.sha>>)

====
